---- MODULE Spec2Model ----
(***************************************************************************)
(* The reflection agent of basic.py / chains.py as a state machine.        *)
(*                                                                         *)
(* The script imports chains.py (credential assert), loads the credential  *)
(* itself, compiles a MessageGraph with two nodes (generate, reflect), a   *)
(* conditional edge out of generate (should_continue) and a fixed edge     *)
(* reflect -> generate, invokes it once on a single HumanMessage and       *)
(* prints the returned list of messages.                                   *)
(*                                                                         *)
(* The remote model is the environment: each chain.invoke either raises or *)
(* returns a reply whose content is drawn from Replies.                    *)
(***************************************************************************)
EXTENDS Naturals, Sequences, FiniteSets

VARIABLES
    environ,    \* names present in os.environ once load_dotenv() has run
    pc,         \* position of the script / node of the graph to run next
    messages,   \* the MessageGraph state: the list of messages of the run
    uuid,       \* number of message ids handed out so far
    response,   \* basic.py:57, the variable `response` (None until assigned)
    printed,    \* what print(response) wrote (None until it ran)
    steps,      \* history: the chain.invoke calls made, in order
    checked,    \* history: the evaluations of should_continue, in order
    twin        \* a second run of the graph, used to compare two runs

vars == <<environ, pc, messages, uuid, response, printed, steps, checked, twin>>

----------------------------------------------------------------------------
(* Constants of the program *)

GENERATE == "generate"
REFLECT == "reflect"
END == "__end__"
Threshold == 6
KeyName == "GOOGLE_API_KEY"
Topic == "AI Agents taking over content creation"

(* What the remote model may answer: any text, the empty one included. *)
Replies == {"", "tweet", "critique"}

None == <<>>
NoId == 0

(* Longest conversation a run of the compiled graph is started with. *)
MaxInitLen == 8

----------------------------------------------------------------------------
(* Messages: a type tag, a content and an id (NoId while unassigned). *)

HumanMessage(content) == [type |-> "human", content |-> content, id |-> NoId]

(* The message a chain (prompt | llm) returns for a reply of the model:   *)
(* an AIMessage carrying the id of the model run.                         *)
AIMessage(content, runId) == [type |-> "ai", content |-> content, id |-> runId]

(* key in os.environ *)
InEnvironMut(key) == TRUE
InEnviron(key) == key \in environ

IndexOfId(left, id) ==
    IF \E i \in 1..Len(left) : left[i].id = id
    THEN CHOOSE i \in 1..Len(left) : left[i].id = id
    ELSE 0

(* The reducer of MessageGraph (add_messages): a message without an id    *)
(* gets a fresh one; a message whose id is already in the list replaces   *)
(* that entry in place, any other message is appended.                    *)
RECURSIVE add_messages(_, _, _)
add_messages(left, right, fresh) ==
    IF right = <<>> THEN left
    ELSE LET m == IF Head(right).id = NoId
                  THEN [Head(right) EXCEPT !.id = fresh]
                  ELSE Head(right)
             i == IndexOfId(left, m.id)
             merged == IF i = 0 THEN Append(left, m) ELSE [left EXCEPT ![i] = m]
         IN add_messages(merged, Tail(right), fresh + 1)

(* basic.py:25-28: the node returns what generation_chain.invoke returns. *)
generate_nodeMut(state, reply) == <<>>
generate_nodeHuman(state, reply) == <<HumanMessage(reply.content)>>
generate_node(state, reply) == <<reply>>

(* basic.py:31-35: the reply's content, re-wrapped as a HumanMessage. *)
reflect_nodeMut(msgs, reply) ==
    <<[HumanMessage(reply.content) EXCEPT !.id = msgs[Len(msgs)].id]>>
reflect_nodeAsIs(msgs, reply) == <<reply>>
reflect_node(msgs, reply) == <<HumanMessage(reply.content)>>

(* basic.py:43-46 *)
should_continueMut(state) == IF Len(state) >= Threshold THEN END ELSE REFLECT
should_continueDrafts(state) ==
    IF Cardinality({i \in 1..Len(state) : state[i].type = "ai"}) > Threshold
    THEN END ELSE REFLECT
should_continueEmpty(state) ==
    IF Len(state) > Threshold \/ state[Len(state)].content = "" THEN END ELSE REFLECT
should_continueTypo(state) == IF Len(state) > Threshold THEN END ELSE "reflection"
should_continue(state) == IF Len(state) > Threshold THEN END ELSE REFLECT

(* basic.py:40, graph.set_entry_point(GENERATE) *)
EntryPointMut == REFLECT
EntryPoint == GENERATE

(* basic.py:50, graph.add_edge(REFLECT, GENERATE) *)
ReflectEdgeMut == IF Len(messages) + 1 > Threshold THEN END ELSE GENERATE
ReflectEdge == GENERATE

(* basic.py:49: the state the conditional edge hands to should_continue   *)
(* is the graph state with the write of the node it leaves applied.       *)
BranchInputMut == SubSeq(messages, 1, Len(messages) - 1)
BranchInput == messages

(* One evaluation of should_continue: the state it was given and the      *)
(* number of chain calls made before it.                                  *)
Evaluation(state, at) == [state |-> state, at |-> at]

(* One entry of the history: which chain was invoked, whether the call    *)
(* returned, and the content it returned.                                 *)
Call(node, ok, content) == [node |-> node, ok |-> ok, content |-> content]

----------------------------------------------------------------------------
Init ==
    /\ environ \in SUBSET {KeyName}
    /\ pc = "chains"
    /\ messages = <<>>
    /\ uuid = 0
    /\ response = None
    /\ printed = None
    /\ steps = <<>>
    /\ checked = <<>>
    /\ twin = [pc |-> "invoke", messages |-> <<>>, uuid |-> 0, steps |-> <<>>]

(* chains.py:10-11, run by `from chains import ...` (basic.py:5). *)
ImportChains ==
    /\ pc = "chains"
    /\ pc' = IF InEnviron(KeyName) THEN "basic" ELSE "error"
    /\ UNCHANGED <<environ, messages, uuid, response, printed, steps, checked>>

(* basic.py:8-10: os.environ["GOOGLE_API_KEY"] raises KeyError if absent. *)
LoadKey ==
    /\ pc = "basic"
    /\ pc' = IF InEnviron(KeyName) THEN "invoke" ELSE "error"
    /\ UNCHANGED <<environ, messages, uuid, response, printed, steps, checked>>

(* basic.py:57: app.invoke(HumanMessage(...)) puts the input into the     *)
(* graph state through the reducer and schedules the entry point.         *)
Invoke ==
    /\ pc = "invoke"
    /\ messages' = add_messages(<<>>, <<HumanMessage(Topic)>>, uuid + 1)
    /\ uuid' = uuid + 1
    /\ pc' = EntryPoint
    /\ UNCHANGED <<environ, response, printed, steps, checked>>

(* As GenerateNode, with the failure of the call swallowed. *)
GenerateNodeMut ==
    /\ pc = GENERATE
    /\ \/ /\ steps' = Append(steps, Call(GENERATE, FALSE, "raised"))
          /\ pc' = "should_continue"
          /\ UNCHANGED <<messages, uuid>>
       \/ \E r \in Replies :
            /\ steps' = Append(steps, Call(GENERATE, TRUE, r))
            /\ messages' = add_messages(messages,
                               generate_node(messages, AIMessage(r, uuid + 1)),
                               uuid + 2)
            /\ uuid' = uuid + 2
            /\ pc' = "should_continue"
    /\ UNCHANGED <<environ, response, printed, checked>>

(* The generate node: the chain call raises, or its reply is reduced into *)
(* the state and the conditional edge is evaluated next.                  *)
GenerateNode ==
    /\ pc = GENERATE
    /\ \/ /\ steps' = Append(steps, Call(GENERATE, FALSE, "raised"))
          /\ pc' = "error"
          /\ UNCHANGED <<messages, uuid>>
       \/ \E r \in Replies :
            /\ steps' = Append(steps, Call(GENERATE, TRUE, r))
            /\ messages' = add_messages(messages,
                               generate_node(messages, AIMessage(r, uuid + 1)),
                               uuid + 2)
            /\ uuid' = uuid + 2
            /\ pc' = "should_continue"
    /\ UNCHANGED <<environ, response, printed, checked>>

(* basic.py:43-49: the conditional edge out of generate. On END the graph *)
(* stops and app.invoke returns the state, assigned to response.          *)
ShouldContinue ==
    /\ pc = "should_continue"
    /\ checked' = Append(checked, Evaluation(BranchInput, Len(steps)))
    /\ pc' = should_continue(BranchInput)
    /\ response' = IF should_continue(BranchInput) = END THEN messages ELSE response
    /\ UNCHANGED <<environ, messages, uuid, printed, steps>>

(* As ReflectNode, with one retry of a failed call. *)
ReflectNodeMut ==
    /\ pc = REFLECT
    /\ \/ /\ steps' = Append(steps, Call(REFLECT, FALSE, "raised"))
          /\ pc' = IF steps # <<>> /\ ~steps[Len(steps)].ok THEN "error" ELSE REFLECT
          /\ UNCHANGED <<messages, uuid>>
       \/ \E r \in Replies :
            /\ steps' = Append(steps, Call(REFLECT, TRUE, r))
            /\ messages' = add_messages(messages,
                               reflect_node(messages, AIMessage(r, uuid + 1)),
                               uuid + 2)
            /\ uuid' = uuid + 2
            /\ pc' = ReflectEdge
    /\ UNCHANGED <<environ, response, printed, checked>>

(* The reflect node, then the fixed edge back to generate. *)
ReflectNode ==
    /\ pc = REFLECT
    /\ \/ /\ steps' = Append(steps, Call(REFLECT, FALSE, "raised"))
          /\ pc' = "error"
          /\ UNCHANGED <<messages, uuid>>
       \/ \E r \in Replies :
            /\ steps' = Append(steps, Call(REFLECT, TRUE, r))
            /\ messages' = add_messages(messages,
                               reflect_node(messages, AIMessage(r, uuid + 1)),
                               uuid + 2)
            /\ uuid' = uuid + 2
            /\ pc' = ReflectEdge
    /\ UNCHANGED <<environ, response, printed, checked>>

(* basic.py:59 *)
PrintResponse ==
    /\ pc = END
    /\ printed' = response
    /\ pc' = "exit"
    /\ UNCHANGED <<environ, messages, uuid, response, steps, checked>>

Next ==
    \/ ImportChains /\ UNCHANGED twin
    \/ LoadKey /\ UNCHANGED twin
    \/ Invoke /\ UNCHANGED twin
    \/ GenerateNode /\ UNCHANGED twin
    \/ ShouldContinue /\ UNCHANGED twin
    \/ ReflectNode /\ UNCHANGED twin
    \/ PrintResponse /\ UNCHANGED twin

Spec == Init /\ [][Next]_vars

----------------------------------------------------------------------------
(* The compiled graph invoked on a conversation of any length: app.invoke *)
(* takes a list of messages as well as a single one.                      *)

RECURSIVE Conversation(_)
Conversation(n) ==
    IF n = 0 THEN <<>>
    ELSE Append(Conversation(n - 1),
                IF n % 2 = 1 THEN HumanMessage(Topic) ELSE AIMessage(Topic, NoId))

InvokeAny ==
    /\ pc = "invoke"
    /\ \E n \in 1..MaxInitLen :
         /\ messages' = add_messages(<<>>, Conversation(n), uuid + 1)
         /\ uuid' = uuid + n
    /\ pc' = EntryPoint
    /\ UNCHANGED <<environ, response, printed, steps, checked>>

NextAny ==
    \/ ImportChains /\ UNCHANGED twin
    \/ LoadKey /\ UNCHANGED twin
    \/ InvokeAny /\ UNCHANGED twin
    \/ GenerateNode /\ UNCHANGED twin
    \/ ShouldContinue /\ UNCHANGED twin
    \/ ReflectNode /\ UNCHANGED twin
    \/ PrintResponse /\ UNCHANGED twin

(* The script is one thread that runs its next statement whenever it has  *)
(* one: a step that can be taken is taken.                                *)
SpecAny == Init /\ [][NextAny]_vars /\ WF_vars(NextAny)

----------------------------------------------------------------------------
(* Two runs of the same graph on the same input, each with replies of its *)
(* own and neither with a failing call, taken step by step side by side.  *)
(* The second run is the record twin; its steps are those of the nodes    *)
(* and edges above, applied to the record.                                *)

TwinReplies == {"", "critique"}

TwinGenerate ==
    /\ twin.pc = GENERATE
    /\ \E r \in TwinReplies :
         twin' = [twin EXCEPT
                    !.steps = Append(@, Call(GENERATE, TRUE, r)),
                    !.messages = add_messages(@,
                                     generate_node(@, AIMessage(r, twin.uuid + 1)),
                                     twin.uuid + 2),
                    !.uuid = @ + 2,
                    !.pc = "should_continue"]

TwinShouldContinue ==
    /\ twin.pc = "should_continue"
    /\ twin' = [twin EXCEPT !.pc = should_continue(twin.messages)]

TwinReflect ==
    /\ twin.pc = REFLECT
    /\ \E r \in TwinReplies :
         twin' = [twin EXCEPT
                    !.steps = Append(@, Call(REFLECT, TRUE, r)),
                    !.messages = add_messages(@,
                                     reflect_node(@, AIMessage(r, twin.uuid + 1)),
                                     twin.uuid + 2),
                    !.uuid = @ + 2,
                    !.pc = ReflectEdge]

TwinStep == TwinGenerate \/ TwinShouldContinue \/ TwinReflect

PairInvoke ==
    /\ InvokeAny
    /\ twin.pc = "invoke"
    /\ twin' = [twin EXCEPT !.messages = messages', !.uuid = uuid', !.pc = EntryPoint]

PairGenerate == GenerateNode /\ pc' # "error" /\ TwinStep
PairShouldContinue == ShouldContinue /\ TwinStep
PairReflect == ReflectNode /\ pc' # "error" /\ TwinStep

PairPrint ==
    /\ PrintResponse
    /\ twin.pc = END
    /\ twin' = [twin EXCEPT !.pc = "exit"]

NextPair ==
    \/ ImportChains /\ UNCHANGED twin
    \/ LoadKey /\ UNCHANGED twin
    \/ PairInvoke
    \/ PairGenerate
    \/ PairShouldContinue
    \/ PairReflect
    \/ PairPrint

SpecPair == Init /\ [][NextPair]_vars

----------------------------------------------------------------------------
(* Vocabulary of the properties *)

Calls(node) == Cardinality({i \in 1..Len(steps) : steps[i].node = node})
NoFailure == \A i \in 1..Len(steps) : steps[i].ok
Terminated == pc \in {END, "exit"}
Running == pc \in {GENERATE, "should_continue", REFLECT}
IsPrefix(s, t) == Len(s) <= Len(t) /\ \A i \in 1..Len(s) : s[i] = t[i]
Contents(conv) == [i \in 1..Len(conv) |-> conv[i].content]
StepCompleted == Len(steps') = Len(steps) + 1 /\ steps'[Len(steps')].ok
FirstGenerationFailed ==
    steps # <<>> /\ steps[1].node = GENERATE /\ ~steps[1].ok

----------------------------------------------------------------------------
(* C1, as stated: a run from one input turn in which no call fails has    *)
(* made exactly 3 generation calls and 2 reflection calls when the loop   *)
(* terminates.                                                            *)
C1_AsStated ==
    (Terminated /\ NoFailure) => (Calls(GENERATE) = 3 /\ Calls(REFLECT) = 2)

(* C1, amended: such a run has made exactly 4 generation calls and 3      *)
(* reflection calls when the loop terminates, and never more than that.   *)
C1_CallCounts ==
    /\ (Terminated /\ NoFailure) => (Calls(GENERATE) = 4 /\ Calls(REFLECT) = 3)
    /\ Calls(GENERATE) <= 4
    /\ Calls(REFLECT) <= 3

C1_Witness == pc = END /\ NoFailure /\ Len(steps) = 7 /\ Len(messages) = 8

(* C2: the loop terminates exactly when the length exceeds the threshold  *)
(* right after a generation step: the check that follows a generation     *)
(* step leads to END if the length is > 6 and to reflect otherwise, END   *)
(* is entered from nowhere else, and a reflection step never leads to it. *)
C2_TerminatesIffOverThreshold ==
    [][ /\ (pc = "should_continue" /\ Len(messages) > Threshold) => pc' = END
        /\ (pc = "should_continue" /\ Len(messages) <= Threshold) => pc' = REFLECT
        /\ (pc = GENERATE /\ StepCompleted) => pc' = "should_continue"
        /\ (pc' = END /\ pc # END) =>
              /\ pc = "should_continue"
              /\ Len(messages) > Threshold
              /\ steps[Len(steps)].node = GENERATE
        /\ pc = REFLECT => pc' \in {GENERATE, "error"}
      ]_vars

C2_Witness ==
    /\ pc = END
    /\ Len(messages) = Threshold + 2
    /\ steps[Len(steps)].node = GENERATE
    /\ Calls(REFLECT) > 0

(* C3: once the run has its initial conversation, every formatter call    *)
(* that completes makes the conversation exactly one turn longer, in the  *)
(* same step that passes control on, and nothing else changes its length. *)
C3_OneTurnPerStep ==
    [][ messages # <<>> =>
          /\ StepCompleted => Len(messages') = Len(messages) + 1
          /\ Len(messages') # Len(messages) => StepCompleted
      ]_vars

C3_Witness ==
    /\ steps # <<>>
    /\ steps[Len(steps)].ok
    /\ steps[Len(steps)].node = REFLECT
    /\ Len(messages) = 1 + Len(steps)

(* C4: the conversation is append-only: in every step the conversation    *)
(* before is a prefix of the conversation after.                          *)
C4_AppendOnly == [][IsPrefix(messages, messages')]_vars

C4_Witness ==
    /\ Calls(REFLECT) >= 1
    /\ Calls(GENERATE) >= 2
    /\ NoFailure
    /\ Len(messages) >= 4

(* C5: if the call of the first generation step fails, no reflection step *)
(* runs, the run is in its error outcome and not terminated, and no       *)
(* conversation is returned or printed.                                   *)
C5_FirstGenerationFailure ==
    FirstGenerationFailed =>
        /\ Calls(REFLECT) = 0
        /\ Len(steps) = 1
        /\ pc = "error"
        /\ response = None
        /\ printed = None

C5_Witness == FirstGenerationFailed /\ pc = "error" /\ Len(messages) = 1

(* C6: without the credential in the environment the run fails at         *)
(* startup: the loop is never entered and no model call is made.          *)
C6_MissingCredential ==
    KeyName \notin environ =>
        /\ pc \in {"chains", "error"}
        /\ steps = <<>>
        /\ messages = <<>>
        /\ response = None

C6_Witness == KeyName \notin environ /\ pc = "error"

(* C7: a failed model call, in either step and at any iteration, is the   *)
(* last call of the run: the run is in its error outcome, the             *)
(* conversation holds only the turns of the calls that completed before   *)
(* it, and nothing is returned.                                           *)
C7_FailureIsTerminal ==
    \A i \in 1..Len(steps) :
        ~steps[i].ok =>
            /\ i = Len(steps)
            /\ pc = "error"
            /\ Len(messages) = i
            /\ response = None
            /\ printed = None

C7_Witness ==
    /\ pc = "error"
    /\ Len(steps) = 4
    /\ steps[4].node = REFLECT
    /\ ~steps[4].ok

(* C8: at termination the result is the input turn followed by the output *)
(* of every step that ran, one turn each, in the order the steps ran.     *)
C8_ResultIsFullConversation ==
    Terminated =>
        /\ Len(response) = 1 + Len(steps)
        /\ Contents(response) = <<Topic>> \o [i \in 1..Len(steps) |-> steps[i].content]
        /\ response = messages

C8_Witness == pc = "exit" /\ printed = response /\ Len(response) = 8

(* C9, as stated: while the loop has not terminated the conversation has  *)
(* at most 6 turns.                                                       *)
C9_AsStated == Running => Len(messages) <= Threshold

(* C9, amended: while the loop has not terminated the conversation has at *)
(* most 7 turns when a formatter is about to run and at most 8 when the   *)
(* termination check is evaluated; a reflection step runs only on at most *)
(* 6 turns.                                                               *)
C9_LengthBound ==
    /\ pc = REFLECT => Len(messages) <= Threshold
    /\ pc = GENERATE => Len(messages) <= Threshold + 1
    /\ pc = "should_continue" => Len(messages) <= Threshold + 2

C9_Witness == pc = GENERATE /\ Len(messages) = Threshold + 1

(* C10: the first formatter called is generation, consecutive calls are   *)
(* never of the same formatter, and a completed reflection step is always *)
(* followed by generation, whatever the length.                           *)
C10_StrictAlternation ==
    /\ steps # <<>> => steps[1].node = GENERATE
    /\ \A i \in 1..(Len(steps) - 1) : steps[i].node # steps[i + 1].node
    /\ (steps # <<>> /\ steps[Len(steps)].node = REFLECT /\ steps[Len(steps)].ok)
          => pc = GENERATE
    /\ pc = REFLECT => (steps # <<>> /\ steps[Len(steps)].node = GENERATE)
    /\ (steps = <<>> /\ messages # <<>>) => pc = GENERATE

C10_Witness ==
    /\ Len(steps) = 6
    /\ steps[6].node = REFLECT
    /\ steps[6].ok
    /\ Len(messages) > Threshold
    /\ pc = GENERATE

(* C11: should_continue is evaluated only right after a generation step   *)
(* that completed, once per such step, and on the conversation whose last *)
(* turn is that step's output: never on the input alone, never on the     *)
(* conversation as it was before the step.                                *)
C11_CheckAfterGeneration ==
    /\ \A k \in 1..Len(checked) :
         LET at == checked[k].at
             seen == checked[k].state
         IN /\ at >= 1
            /\ steps[at].node = GENERATE
            /\ steps[at].ok
            /\ Len(seen) = 1 + at
            /\ seen[Len(seen)].type = "ai"
            /\ seen[Len(seen)].content = steps[at].content
            /\ seen = SubSeq(messages, 1, Len(seen))
            /\ \A j \in 1..(k - 1) : checked[j].at < at
    /\ Len(checked) <= Calls(GENERATE)
    /\ pc \in {REFLECT, END} => Len(checked) = Calls(GENERATE)

C11_Witness ==
    /\ Len(checked) = 2
    /\ Len(checked[2].state) = 4
    /\ pc = REFLECT

(* C12: if no model call fails (and the credential is there), the run     *)
(* reaches END whatever the length of the conversation it started with.   *)
C12_EventuallyTerminates == ([](pc # "error")) => <>Terminated

C12_Witness ==
    /\ pc = "exit"
    /\ Len(steps) = 1
    /\ Len(messages) = Threshold + 1

(* C13: the turn a completed reflection step appends is human-tagged and  *)
(* carries the content of the model's reply, the turn a completed         *)
(* generation step appends is assistant-tagged, and no step changes the   *)
(* tag of a turn that is already there.                                   *)
C13_RoleTagging ==
    [][ /\ (pc = REFLECT /\ StepCompleted) =>
              /\ Len(messages') = Len(messages) + 1
              /\ messages'[Len(messages')].type = "human"
              /\ messages'[Len(messages')].content = steps'[Len(steps')].content
        /\ (pc = GENERATE /\ StepCompleted) =>
              /\ Len(messages') = Len(messages) + 1
              /\ messages'[Len(messages')].type = "ai"
              /\ messages'[Len(messages')].content = steps'[Len(steps')].content
        /\ \A i \in 1..Len(messages) :
              i <= Len(messages') /\ messages'[i].type = messages[i].type
      ]_vars

C13_Witness ==
    /\ Len(messages) = 3
    /\ messages[2].type = "ai"
    /\ messages[3].type = "human"
    /\ messages[3].content = "critique"
    /\ pc = GENERATE

(* C15: from a single input turn the length is even right after every    *)
(* generation step and odd right after every reflection step, so          *)
(* should_continue is never evaluated on 7 turns, and the run ends with   *)
(* exactly 8 turns.                                                       *)
C15_ParityAndFinalLength ==
    /\ (steps # <<>> /\ steps[Len(steps)].ok /\ steps[Len(steps)].node = GENERATE)
          => Len(messages) % 2 = 0
    /\ (steps # <<>> /\ steps[Len(steps)].ok /\ steps[Len(steps)].node = REFLECT)
          => Len(messages) % 2 = 1
    /\ \A k \in 1..Len(checked) : Len(checked[k].state) # Threshold + 1
    /\ Terminated => (Len(response) = Threshold + 2 /\ Len(messages) = Threshold + 2)

C15_Witness ==
    /\ pc = END
    /\ Len(checked) = 4
    /\ Len(checked[4].state) = Threshold + 2
    /\ Len(response) = Threshold + 2

(* C16: completed generation calls minus completed reflection calls is 0  *)
(* or 1 in every state and 1 at termination, where the last turn of the   *)
(* result is the output of the last generation call.                      *)
Completed(node) ==
    Cardinality({i \in 1..Len(steps) : steps[i].node = node /\ steps[i].ok})

C16_LastTurnIsDraft ==
    /\ Completed(GENERATE) >= Completed(REFLECT)
    /\ Completed(GENERATE) <= Completed(REFLECT) + 1
    /\ Terminated =>
          /\ Completed(GENERATE) = Completed(REFLECT) + 1
          /\ steps[Len(steps)].node = GENERATE
          /\ response # None
          /\ response[Len(response)].type = "ai"
          /\ response[Len(response)].content = steps[Len(steps)].content

C16_Witness ==
    /\ pc = "exit"
    /\ Completed(GENERATE) = 4
    /\ Completed(REFLECT) = 3
    /\ printed[Len(printed)].type = "ai"

(* C17: from a single human input turn the tags of the conversation       *)
(* alternate human, ai, human, ai, ... in every state, so generation runs *)
(* on a conversation that ends with a human turn and reflection on one    *)
(* that ends with an assistant turn.                                      *)
C17_RolesAlternate ==
    /\ \A i \in 1..Len(messages) :
          messages[i].type = IF i % 2 = 1 THEN "human" ELSE "ai"
    /\ pc = GENERATE => messages[Len(messages)].type = "human"
    /\ pc = REFLECT => messages[Len(messages)].type = "ai"

C17_Witness ==
    /\ pc = REFLECT
    /\ Len(messages) = Threshold
    /\ messages[Threshold].type = "ai"
    /\ messages[Threshold - 1].type = "human"

(* C14: two runs started on conversations of the same length, with       *)
(* replies that differ in any way (empty ones included), are at the same  *)
(* node after the same number of steps, have made the same calls in the   *)
(* same order and hold conversations of the same length, up to and        *)
(* including termination.                                                 *)
Nodes(calls) == [i \in 1..Len(calls) |-> calls[i].node]

C14_RepliesDoNotSteer ==
    pc \notin {"chains", "basic", "invoke", "error"} =>
        /\ twin.pc = pc
        /\ Nodes(twin.steps) = Nodes(steps)
        /\ Len(twin.messages) = Len(messages)

C14_Witness ==
    /\ pc = "exit"
    /\ twin.pc = "exit"
    /\ Len(steps) = 7
    /\ Contents(twin.messages) # Contents(messages)
    /\ \E i \in 1..Len(twin.steps) : twin.steps[i].content = "" /\ steps[i].content # ""

====
